---- MODULE Spec2Model ----
(***************************************************************************)
(* State-machine model of the execution-proof validation engine:          *)
(*   internal/browser/manager.go   Manager (in-process chromedp driver)    *)
(*   pkg/scanning/headless.go      dispatcher and out-of-process caller    *)
(*   puppeteer_verifier.js         out-of-process scripted driver          *)
(* One validation call is a sequence of steps separated at the points      *)
(* where the code blocks on the browser, on a timer or on a child process. *)
(* The browser, the network, the file system and the clock are the         *)
(* environment: their outcomes are chosen nondeterministically.            *)
(***************************************************************************)
EXTENDS Integers, Sequences, FiniteSets, TLC

(* ------------------------------ bounds -------------------------------- *)
\* the clock runs from 0 to MaxTime seconds
MaxTime == 6
\* dialogs one page may raise during one call
MaxDialogs == 2
\* slack, in seconds, granted on top of navigation timeout + wait window
Epsilon == 1

\* the goroutines that may run an entry point
Calls == {1, 2}

(* ------------------------------ inputs -------------------------------- *)
URLs == {"http://t/a", "http://t/b"}
SessionIDs == {"s1"}
Payloads == {"<svg/onload=alert(1)>"}
Contexts == {"html"}

\* BrowserConfig values the manager may be constructed with
\* headless.go:19-26: the configuration of the package-level browserMgr
HeadlessConfig == [Timeout |-> 30, WaitForAlertOnlyTime |-> 5, TakeScreenshots |-> TRUE]

BrowserConfig ==
    { HeadlessConfig,
      [Timeout |-> 1, WaitForAlertOnlyTime |-> -1, TakeScreenshots |-> TRUE],
      [Timeout |-> 2, WaitForAlertOnlyTime |-> 0, TakeScreenshots |-> FALSE],
      [Timeout |-> 1, WaitForAlertOnlyTime |-> 1, TakeScreenshots |-> FALSE],
      [Timeout |-> 2, WaitForAlertOnlyTime |-> 2, TakeScreenshots |-> TRUE] }

\* CDP dialog kinds with the message the page passed
DialogEvents ==
    { [Type |-> "alert", Message |-> "xss"],
      [Type |-> "confirm", Message |-> "1"],
      [Type |-> "prompt", Message |-> "xss"],
      [Type |-> "beforeunload", Message |-> ""] }

\* errors chromedp.Run(Navigate) reports before its deadline
NetErrors == {"net::ERR_CONNECTION_REFUSED"}
DeadlineExceeded == "context deadline exceeded"
NotInitialized == "browser not initialized"

\* waitSec = 5 when the configured window is not positive
DefaultWaitSec == 5
\* convertPNGtoJPG(pngBuf, 95); quality: 95 in the script
JPEGQuality == 95
\* parseInt(args[3]) || 30 and parseInt(args[4]) || 5
ScriptDefaultTimeout == 30
ScriptDefaultWait == 5

\* options.HeadlessTimeout values the scanner may pass; nothing checks the sign
HeadlessTimeouts == {-6, 1, 6}

\* what FullScreenshot hands back: an error, or PNG bytes (decodable or not)
ScreenshotOutcomes == {"error", "png", "corrupt"}

\* how the write of the proof file ends: ioutil.WriteFile and fs.writeFileSync
\* open the path with O_CREATE|O_TRUNC, write, close. "ok": all three succeed;
\* "open-failed": the open fails and the directory is as before; "write-failed":
\* the open succeeds and the write or the close fails, which leaves the path in
\* place, created or truncated, and reports an error
WriteOutcomes == {"ok", "open-failed", "write-failed"}

\* the path exists after a write that ended this way
Created(w) == w \in {"ok", "write-failed"}

(* ------------------------------ state --------------------------------- *)
VARIABLES
    isInitialized,  \* Manager.isInitialized
    config,         \* Manager.config
    sessions,       \* Manager.sessions
    now,            \* wall clock, seconds
    files,          \* paths present under snapshots/jpg
    overwritten,    \* some write hit a path that was already present
    quota,          \* per call slot: entry-point calls it may still start
    pc,             \* per call: position in its entry point
    args,           \* per call: entry point and arguments
    ctxLive,        \* per call: its chromedp context / browser is live
    listening,      \* per call: the dialog listener is registered
    dialogCh,       \* per call: the buffered dialog channel
    raised,         \* per call: how many dialogs the page has raised
    first,          \* per call: the first dialog the page raised
    unobserved,     \* per call: a dialog was raised with no listener armed
    start,          \* per call: time.Now() at line 111
    deadline,       \* per call: deadline of the step it is blocked in
    waitSec,        \* per call: the wait window in use
    dlg,            \* per call: the event the select received
    proof,          \* per call: the ExecutionProof under construction
    effects,        \* per call: what it attempted (navigation, capture, write)
    result          \* per call: the returned value

vars == <<isInitialized, config, sessions, now, files, overwritten, quota, pc, args,
          ctxLive, listening, dialogCh, raised, first, unobserved, start, deadline, waitSec,
          dlg, proof, effects, result>>

mgrVars == <<isInitialized, config, sessions>>

(* --------------------------- pure functions --------------------------- *)
\* a mapping that only knows alert: every other kind falls to the default
dialogTypeFromString_AlertOnly(s) == IF s = "alert" THEN "alert" ELSE "dialog"

\* dialogTypeFromString maps CDP dialog type strings to ExecutionType values
dialogTypeFromString(s) ==
    CASE s = "alert" -> "alert"
      [] s = "confirm" -> "confirm"
      [] s = "prompt" -> "prompt"
      [] OTHER -> "dialog"

\* convertPNGtoJPG: image.Decode fails on bytes that are no image; otherwise
\* the picture is re-encoded as JPEG at the given quality
convertPNGtoJPG(pngBytes, quality) ==
    IF pngBytes = "png"
    THEN [err |-> FALSE, bytes |-> <<"jpeg", quality>>]
    ELSE [err |-> TRUE, bytes |-> <<>>]

\* fmt.Sprintf("%x", sha256.Sum256([]byte(s)))
sha256Hex(s) == <<"sha256", s>>

\* h[:12]
prefix12(h) == <<"12", h[2]>>

\* base64.StdEncoding.EncodeToString
base64(bytes) == <<"base64", bytes>>

\* a name stamped with a coarser clock: two-second resolution
outPath_Coarse(url, payload, unix) ==
    [dir |-> "snapshots/jpg",
     target |-> prefix12(sha256Hex(url)),
     payload |-> prefix12(sha256Hex(payload)),
     ts |-> 2 * (unix \div 2)]

\* filepath.Join("snapshots", "jpg", targethash_payloadhash_timestamp.jpg)
outPath(url, payload, unix) ==
    [dir |-> "snapshots/jpg",
     target |-> prefix12(sha256Hex(url)),
     payload |-> prefix12(sha256Hex(payload)),
     ts |-> unix]

\* ExecutionProof; ExecutedAt (time.Now(), read by nothing in the engine) is left out
NoProof ==
    [PayloadSHA256 |-> <<>>, ExecutionType |-> "", Evidence |-> "",
     PageURL |-> "", PageTitle |-> "", ExecutionContext |-> "",
     ScreenshotPath |-> <<>>, ScreenshotData |-> <<>>]

NoDuration == [set |-> FALSE, secs |-> 0]
Since(t0) == [set |-> TRUE, secs |-> now - t0]

\* the zero value of every per-call field
NoResult ==
    [returned |-> FALSE, IsVulnerable |-> FALSE, ExecutionDetected |-> FALSE,
     ExecutionProofs |-> <<>>, Error |-> "", ValidationDuration |-> NoDuration,
     path |-> "none", bool |-> FALSE, data |-> <<>>]
NoArgs ==
    [url |-> "", payload |-> "", fn |-> "", entry |-> "", sessionID |-> "",
     contextStr |-> "", timeout |-> 0, waitTime |-> 0]
NoDialog == [Type |-> "", Message |-> ""]
\* what a call has done so far, when its page raised its first dialog
\* ("load": while navigating, "wait": inside the wait window, "late": after it),
\* and whether a dialog of its page has been left unanswered
NoEffects ==
    [context |-> FALSE, navigated |-> FALSE, loaded |-> FALSE, screenshot |-> FALSE,
     wrote |-> FALSE, firstAt |-> "none", open |-> FALSE]
NoDeadline == -1

(* ------------------------------ Init ---------------------------------- *)
\* a manager with an empty session map, one of the given configurations and the
\* given readiness; no call in progress, the proof store empty
InitState(cfgs, q, ready) ==
    /\ isInitialized = ready
    /\ config \in cfgs
    /\ quota = q
    /\ sessions = {}
    /\ now = 0
    /\ files = {}
    /\ overwritten = FALSE
    /\ pc = [c \in Calls |-> "idle"]
    /\ args = [c \in Calls |-> NoArgs]
    /\ ctxLive = [c \in Calls |-> FALSE]
    /\ listening = [c \in Calls |-> FALSE]
    /\ dialogCh = [c \in Calls |-> <<>>]
    /\ raised = [c \in Calls |-> 0]
    /\ first = [c \in Calls |-> NoDialog]
    /\ unobserved = [c \in Calls |-> FALSE]
    /\ start = [c \in Calls |-> 0]
    /\ deadline = [c \in Calls |-> NoDeadline]
    /\ waitSec = [c \in Calls |-> 0]
    /\ dlg = [c \in Calls |-> NoDialog]
    /\ proof = [c \in Calls |-> NoProof]
    /\ effects = [c \in Calls |-> NoEffects]
    /\ result = [c \in Calls |-> NoResult]

\* NewManager(cfg) alone: manager.go:35-41, isInitialized false
InitWith(cfgs, q) == InitState(cfgs, q, FALSE)

\* the package-level browserMgr once package scanning is loaded: headless.go:17-28,
\* NewManager with the literal configuration, then browserMgr.Initialize()
InitHeadless(q) == InitState({HeadlessConfig}, q, TRUE)

(* --------------------------- call frames ------------------------------ *)
\* a call slot is free before its first call and after a call has returned
Free(c) == pc[c] \in {"idle", "returned"}

\* enter an entry point: fresh locals, nothing carried over from the slot's last call
Enter(c, a, at) ==
    /\ Free(c)
    /\ quota[c] > 0
    /\ quota' = [quota EXCEPT ![c] = @ - 1]
    /\ pc' = [pc EXCEPT ![c] = at]
    /\ args' = [args EXCEPT ![c] = a]
    /\ raised' = [raised EXCEPT ![c] = 0]
    /\ first' = [first EXCEPT ![c] = NoDialog]
    /\ unobserved' = [unobserved EXCEPT ![c] = FALSE]
    /\ dlg' = [dlg EXCEPT ![c] = NoDialog]
    /\ proof' = [proof EXCEPT ![c] = NoProof]
    /\ effects' = [effects EXCEPT ![c] = NoEffects]
    /\ result' = [result EXCEPT ![c] = NoResult]
    /\ waitSec' = [waitSec EXCEPT ![c] = 0]
    /\ UNCHANGED <<mgrVars, now, files, overwritten, ctxLive, listening, dialogCh,
                   start, deadline>>

\* headless.go:92-105: checkXSSWithChromedp turns the result into its bool
Dispatch(c, res) ==
    [res EXCEPT !.bool = (args[c].entry = "checkXSSWithChromedp" /\ res.ExecutionDetected)]

\* return before any context exists: no deferred call is pending
ReturnInert(c, res) ==
    /\ result' = [result EXCEPT ![c] = Dispatch(c, res)]
    /\ pc' = [pc EXCEPT ![c] = "returned"]

\* a return path on which the deferred cancel() is missing: the context stays live
ReturnCancel_Leak(c, res) ==
    /\ result' = [result EXCEPT ![c] = Dispatch(c, res)]
    /\ pc' = [pc EXCEPT ![c] = "returned"]
    /\ UNCHANGED <<ctxLive, listening>>
    /\ dialogCh' = [dialogCh EXCEPT ![c] = <<>>]
    /\ deadline' = [deadline EXCEPT ![c] = NoDeadline]
    /\ start' = [start EXCEPT ![c] = 0]
    /\ proof' = [proof EXCEPT ![c] = NoProof]

\* return with the deferred navCancel() and cancel() run: the context is torn down
ReturnCancel(c, res) ==
    /\ result' = [result EXCEPT ![c] = Dispatch(c, res)]
    /\ pc' = [pc EXCEPT ![c] = "returned"]
    /\ ctxLive' = [ctxLive EXCEPT ![c] = FALSE]
    /\ listening' = [listening EXCEPT ![c] = FALSE]
    /\ dialogCh' = [dialogCh EXCEPT ![c] = <<>>]
    /\ deadline' = [deadline EXCEPT ![c] = NoDeadline]
    /\ start' = [start EXCEPT ![c] = 0]
    /\ proof' = [proof EXCEPT ![c] = NoProof]

(* ------------------------------ Manager ------------------------------- *)
\* an Initialize that tears the environment down when it finds it set up
Initialize_Toggle ==
    /\ isInitialized' = ~isInitialized
    /\ UNCHANGED <<config, sessions, now, files, overwritten, quota, pc, args, ctxLive,
                   listening, dialogCh, raised, first, unobserved, start, deadline, waitSec,
                   dlg, proof, effects, result>>

\* Manager.Initialize, under initMutex
Initialize ==
    /\ isInitialized' = TRUE
    /\ UNCHANGED <<config, sessions, now, files, overwritten, quota, pc, args, ctxLive,
                   listening, dialogCh, raised, first, unobserved, start, deadline, waitSec,
                   dlg, proof, effects, result>>

\* Manager.Shutdown, under initMutex
Shutdown ==
    /\ isInitialized' = FALSE
    /\ UNCHANGED <<config, sessions, now, files, overwritten, quota, pc, args, ctxLive,
                   listening, dialogCh, raised, first, unobserved, start, deadline, waitSec,
                   dlg, proof, effects, result>>

\* Manager.IsInitialized, under initMutex
IsInitialized == isInitialized

(* --------------------------- result values ---------------------------- *)
\* manager.go:104-108
NotInitializedResult ==
    [returned |-> TRUE, IsVulnerable |-> FALSE, ExecutionDetected |-> FALSE,
     ExecutionProofs |-> <<>>, Error |-> NotInitialized,
     ValidationDuration |-> NoDuration, path |-> "not-initialized", bool |-> FALSE, data |-> <<>>]

\* a navigation-error result that drops the error
NavigationErrorResult_NoError(c, navErr) ==
    [returned |-> TRUE, IsVulnerable |-> FALSE, ExecutionDetected |-> FALSE,
     ExecutionProofs |-> <<>>, Error |-> "",
     ValidationDuration |-> Since(start[c]), path |-> "navigation-error", bool |-> FALSE,
     data |-> <<>>]

\* manager.go:136
NavigationErrorResult(c, navErr) ==
    [returned |-> TRUE, IsVulnerable |-> FALSE, ExecutionDetected |-> FALSE,
     ExecutionProofs |-> <<>>, Error |-> navErr,
     ValidationDuration |-> Since(start[c]), path |-> "navigation-error", bool |-> FALSE, data |-> <<>>]

\* a timeout result that carries a proof built without any dialog
NoExecutionResult_Speculative(c) ==
    [returned |-> TRUE, IsVulnerable |-> FALSE, ExecutionDetected |-> FALSE,
     ExecutionProofs |-> << [NoProof EXCEPT !.PageURL = args[c].url] >>, Error |-> "",
     ValidationDuration |-> Since(start[c]), path |-> "wait-timeout", bool |-> FALSE,
     data |-> <<>>]

\* a timeout result that reports the elapsed window as a failure
NoExecutionResult_TimeoutError(c) ==
    [returned |-> TRUE, IsVulnerable |-> FALSE, ExecutionDetected |-> FALSE,
     ExecutionProofs |-> <<>>, Error |-> "timeout waiting for dialog",
     ValidationDuration |-> Since(start[c]), path |-> "wait-timeout", bool |-> FALSE,
     data |-> <<>>]

\* manager.go:189
NoExecutionResult(c) ==
    [returned |-> TRUE, IsVulnerable |-> FALSE, ExecutionDetected |-> FALSE,
     ExecutionProofs |-> <<>>, Error |-> "",
     ValidationDuration |-> Since(start[c]), path |-> "wait-timeout", bool |-> FALSE, data |-> <<>>]

\* a confirmed result that fails closed when the proof has no image
ExecutionResult_FailClosed(c, p) ==
    IF p.ScreenshotPath = <<>>
    THEN [returned |-> TRUE, IsVulnerable |-> FALSE, ExecutionDetected |-> FALSE,
          ExecutionProofs |-> <<>>, Error |-> "screenshot capture failed",
          ValidationDuration |-> Since(start[c]), path |-> "dialog", bool |-> FALSE,
          data |-> <<>>]
    ELSE [returned |-> TRUE, IsVulnerable |-> TRUE, ExecutionDetected |-> TRUE,
          ExecutionProofs |-> <<p>>, Error |-> "",
          ValidationDuration |-> Since(start[c]), path |-> "dialog", bool |-> FALSE,
          data |-> <<>>]

\* a confirmed result whose two flags diverge: vulnerable, execution not confirmed
ExecutionResult_Unconfirmed(c, p) ==
    [returned |-> TRUE, IsVulnerable |-> TRUE, ExecutionDetected |-> FALSE,
     ExecutionProofs |-> <<p>>, Error |-> "",
     ValidationDuration |-> Since(start[c]), path |-> "dialog", bool |-> FALSE, data |-> <<>>]

\* manager.go:181-186
ExecutionResult(c, p) ==
    [returned |-> TRUE, IsVulnerable |-> TRUE, ExecutionDetected |-> TRUE,
     ExecutionProofs |-> <<p>>, Error |-> "",
     ValidationDuration |-> Since(start[c]), path |-> "dialog", bool |-> FALSE, data |-> <<>>]

\* manager.go:148-156
NewProof(c, d) ==
    [PayloadSHA256 |-> sha256Hex(args[c].payload),
     ExecutionType |-> dialogTypeFromString(d.Type),
     Evidence |-> d.Message,
     PageURL |-> args[c].url,
     PageTitle |-> "",
     ExecutionContext |-> args[c].contextStr,
     ScreenshotPath |-> <<>>,
     ScreenshotData |-> <<>>]

\* the configured value taken as it is, without the default
WaitWindow_Raw(cfg) == cfg.WaitForAlertOnlyTime

\* manager.go:140-143
WaitWindow(cfg) ==
    IF cfg.WaitForAlertOnlyTime <= 0 THEN DefaultWaitSec ELSE cfg.WaitForAlertOnlyTime

(* ------------------- entry points of the in-process driver ------------ *)
ValidatePayloadArgs(entry, sessionID, url, payload, contextStr) ==
    [url |-> url, payload |-> payload, fn |-> "ValidatePayload", entry |-> entry,
     sessionID |-> sessionID, contextStr |-> contextStr, timeout |-> 0, waitTime |-> 0]

\* a caller invokes Manager.ValidatePayload(sessionID, url, payload, contextStr)
ValidatePayload(c, sessionID, url, payload, contextStr) ==
    Enter(c, ValidatePayloadArgs("ValidatePayload", sessionID, url, payload, contextStr),
          "vp:isInitialized")

\* a revisit that runs as an ordinary reflected check: the stored label is lost
VerifyStoredXSS_Unlabelled(c, url, sessionID) ==
    Enter(c, ValidatePayloadArgs("VerifyStoredXSS", sessionID, url, "[stored-check]", "html"),
          "vp:isInitialized")

\* Manager.VerifyStoredXSS(url, sessionID)
VerifyStoredXSS(c, url, sessionID) ==
    Enter(c, ValidatePayloadArgs("VerifyStoredXSS", sessionID, url, "[stored-check]", "stored"),
          "vp:isInitialized")

\* checkXSSWithChromedp(url, options) on the package-level browserMgr: session id
\* generated, fixed payload and label
checkXSSWithChromedp(c, url, sessionID) ==
    /\ config = HeadlessConfig
    /\ Enter(c, ValidatePayloadArgs("checkXSSWithChromedp", sessionID, url, "[headless-check]",
                                    "headless"),
             "vp:isInitialized")

(* ------------------------- ValidatePayload steps ---------------------- *)
\* a readiness check that is skipped: the call always goes on to create a context
VP_IsInitialized_Unchecked(c) ==
    /\ pc[c] = "vp:isInitialized"
    /\ pc' = [pc EXCEPT ![c] = "vp:newContext"]
    /\ UNCHANGED <<mgrVars, now, files, overwritten, quota, args, ctxLive, listening,
                   dialogCh, raised, first, unobserved, start, deadline, waitSec, dlg, proof,
                   effects, result>>

\* manager.go:103-109: the readiness check
VP_IsInitialized(c) ==
    /\ pc[c] = "vp:isInitialized"
    /\ IF IsInitialized
       THEN /\ pc' = [pc EXCEPT ![c] = "vp:newContext"]
            /\ UNCHANGED result
       ELSE ReturnInert(c, NotInitializedResult)
    /\ UNCHANGED <<mgrVars, now, files, overwritten, quota, args, ctxLive, listening,
                   dialogCh, raised, first, unobserved, start, deadline, waitSec, dlg, proof,
                   effects>>

\* a call that books its session in the manager's map when it creates its context
VP_newContext_Registers(c) ==
    /\ pc[c] = "vp:newContext"
    /\ start' = [start EXCEPT ![c] = now]
    /\ ctxLive' = [ctxLive EXCEPT ![c] = TRUE]
    /\ effects' = [effects EXCEPT ![c].context = TRUE]
    /\ pc' = [pc EXCEPT ![c] = "vp:listen"]
    /\ sessions' = sessions \cup {args[c].sessionID}
    /\ UNCHANGED <<isInitialized, config, now, files, overwritten, quota, args, listening,
                   dialogCh, raised, first, unobserved, deadline, waitSec, dlg, proof, result>>

\* manager.go:111-115: start := time.Now(); ctx, cancel := m.newContext(parent); defer cancel()
VP_newContext(c) ==
    /\ pc[c] = "vp:newContext"
    /\ start' = [start EXCEPT ![c] = now]
    /\ ctxLive' = [ctxLive EXCEPT ![c] = TRUE]
    /\ effects' = [effects EXCEPT ![c].context = TRUE]
    /\ pc' = [pc EXCEPT ![c] = "vp:listen"]
    /\ UNCHANGED <<mgrVars, now, files, overwritten, quota, args, listening, dialogCh,
                   raised, first, unobserved, deadline, waitSec, dlg, proof, result>>

\* the listener registration left for after the navigation: the call navigates
\* with no listener armed
VP_ListenTarget_Skipped(c) ==
    /\ pc[c] = "vp:listen"
    /\ dialogCh' = [dialogCh EXCEPT ![c] = <<>>]
    /\ pc' = [pc EXCEPT ![c] = "vp:navigate"]
    /\ UNCHANGED <<mgrVars, now, files, overwritten, quota, args, ctxLive, listening,
                   raised, first, unobserved, start, deadline, waitSec, dlg, proof, effects,
                   result>>

\* manager.go:118-128: dialogCh := make(chan, 1); chromedp.ListenTarget(ctx, ...)
VP_ListenTarget(c) ==
    /\ pc[c] = "vp:listen"
    /\ dialogCh' = [dialogCh EXCEPT ![c] = <<>>]
    /\ listening' = [listening EXCEPT ![c] = TRUE]
    /\ pc' = [pc EXCEPT ![c] = "vp:navigate"]
    /\ UNCHANGED <<mgrVars, now, files, overwritten, quota, args, ctxLive, raised,
                   first, unobserved, start, deadline, waitSec, dlg, proof, effects, result>>

\* manager.go:131-134: navCtx with the configured timeout; chromedp.Run(navCtx, Navigate(url))
VP_Navigate(c) ==
    /\ pc[c] = "vp:navigate"
    /\ deadline' = [deadline EXCEPT ![c] = now + config.Timeout]
    /\ effects' = [effects EXCEPT ![c].navigated = TRUE]
    /\ pc' = [pc EXCEPT ![c] = "vp:navigating"]
    /\ UNCHANGED <<mgrVars, now, files, overwritten, quota, args, ctxLive, listening,
                   dialogCh, raised, first, unobserved, start, waitSec, dlg, proof, result>>

\* manager.go:134-145: Run returned nil; waitSec is fixed and the select starts its timer
VP_NavigateOK(c) ==
    /\ pc[c] = "vp:navigating"
    /\ now < deadline[c]
    /\ waitSec' = [waitSec EXCEPT ![c] = WaitWindow(config)]
    /\ deadline' = [deadline EXCEPT ![c] = now + WaitWindow(config)]
    /\ effects' = [effects EXCEPT ![c].loaded = TRUE]
    /\ pc' = [pc EXCEPT ![c] = "vp:select"]
    /\ UNCHANGED <<mgrVars, now, files, overwritten, quota, args, ctxLive, listening,
                   dialogCh, raised, first, unobserved, start, dlg, proof, result>>

\* manager.go:135-137: Run returned an error before the deadline
VP_NavigateError(c, navErr) ==
    /\ pc[c] = "vp:navigating"
    /\ now < deadline[c]
    /\ ReturnCancel(c, NavigationErrorResult(c, navErr))
    /\ UNCHANGED <<mgrVars, now, files, overwritten, quota, args, raised, first, unobserved,
                   waitSec, dlg, effects>>

\* manager.go:131-137: navCtx expired; Run returned context.DeadlineExceeded
VP_NavigateTimeout(c) ==
    /\ pc[c] = "vp:navigating"
    /\ now >= deadline[c]
    /\ ReturnCancel(c, NavigationErrorResult(c, DeadlineExceeded))
    /\ UNCHANGED <<mgrVars, now, files, overwritten, quota, args, raised, first, unobserved,
                   waitSec, dlg, effects>>

\* manager.go:146-156: case dlg := <-dialogCh
VP_SelectDialog(c) ==
    /\ pc[c] = "vp:select"
    /\ Len(dialogCh[c]) > 0
    /\ now < deadline[c]
    /\ dlg' = [dlg EXCEPT ![c] = Head(dialogCh[c])]
    /\ dialogCh' = [dialogCh EXCEPT ![c] = Tail(dialogCh[c])]
    /\ proof' = [proof EXCEPT ![c] = NewProof(c, Head(dialogCh[c]))]
    /\ deadline' = [deadline EXCEPT ![c] = NoDeadline]
    /\ pc' = [pc EXCEPT ![c] = "vp:screenshot"]
    /\ UNCHANGED <<mgrVars, now, files, overwritten, quota, args, ctxLive, listening,
                   raised, first, unobserved, start, waitSec, effects, result>>

\* manager.go:187-189: case <-time.After(waitSec seconds)
VP_SelectTimeout(c) ==
    /\ pc[c] = "vp:select"
    /\ now >= deadline[c]
    /\ ReturnCancel(c, NoExecutionResult(c))
    /\ UNCHANGED <<mgrVars, now, files, overwritten, quota, args, raised, first, unobserved,
                   waitSec, dlg, effects>>

\* the path assigned as soon as it is computed, before the write is known to
\* have succeeded
WithScreenshot_PathFirst(c, p, pngBuf, writeOK) ==
    LET jpg == convertPNGtoJPG(pngBuf, JPEGQuality)
        path == outPath(args[c].url, args[c].payload, now)
    IN  IF jpg.err THEN p
        ELSE IF writeOK
        THEN [p EXCEPT !.ScreenshotPath = path, !.ScreenshotData = base64(jpg.bytes)]
        ELSE [p EXCEPT !.ScreenshotPath = path]

\* manager.go:162-172 on PNG bytes: convert, name, write, fill the proof's image fields
WithScreenshot(c, p, pngBuf, writeOK) ==
    LET jpg == convertPNGtoJPG(pngBuf, JPEGQuality)
        path == outPath(args[c].url, args[c].payload, now)
    IN  IF ~jpg.err /\ writeOK
        THEN [p EXCEPT !.ScreenshotPath = path, !.ScreenshotData = base64(jpg.bytes)]
        ELSE p

\* manager.go:169: ioutil.WriteFile is reached when capture and conversion succeeded
Writes(shot) == shot # "error" /\ ~convertPNGtoJPG(shot, JPEGQuality).err

\* manager.go:159-174: chromedp.Run(ctx, FullScreenshot) returned; convert and persist
VP_Screenshot(c, shot, w) ==
    /\ pc[c] = "vp:screenshot"
    /\ proof' = [proof EXCEPT ![c] =
                    IF shot = "error" THEN @ ELSE WithScreenshot(c, @, shot, w = "ok")]
    /\ effects' = [effects EXCEPT ![c].screenshot = TRUE,
                                  ![c].wrote = Writes(shot)]
    /\ files' = IF Writes(shot) /\ Created(w)
                THEN files \cup {outPath(args[c].url, args[c].payload, now)}
                ELSE files
    /\ overwritten' = (overwritten \/
                        (Writes(shot) /\ Created(w)
                         /\ outPath(args[c].url, args[c].payload, now) \in files))
    /\ pc' = [pc EXCEPT ![c] = "vp:title"]
    /\ UNCHANGED <<mgrVars, now, quota, args, ctxLive, listening, dialogCh, raised,
                   first, unobserved, start, deadline, waitSec, dlg, result>>

\* manager.go:177-186: best-effort title, then the confirmed result
VP_Title(c, title) ==
    /\ pc[c] = "vp:title"
    /\ ReturnCancel(c, ExecutionResult(c, [proof[c] EXCEPT !.PageTitle = title]))
    /\ UNCHANGED <<mgrVars, now, files, overwritten, quota, args, raised, first, unobserved,
                   waitSec, dlg, effects>>

(* ------------------------ CaptureScreenshot --------------------------- *)
\* a caller invokes Manager.CaptureScreenshot(sessionID)
CaptureScreenshot(c, sessionID) ==
    Enter(c, [NoArgs EXCEPT !.fn = "CaptureScreenshot", !.entry = "CaptureScreenshot",
                            !.sessionID = sessionID],
          "cs:isInitialized")

\* manager.go:231, 239, 243: (nil, err)
CaptureError(err) ==
    [NoResult EXCEPT !.returned = TRUE, !.Error = err, !.path = "capture-error"]

\* manager.go:245: (jpg, nil)
CaptureOK(jpg) ==
    [NoResult EXCEPT !.returned = TRUE, !.data = jpg, !.path = "captured"]

\* manager.go:230-232
CS_IsInitialized(c) ==
    /\ pc[c] = "cs:isInitialized"
    /\ IF IsInitialized
       THEN /\ pc' = [pc EXCEPT ![c] = "cs:newContext"]
            /\ UNCHANGED result
       ELSE ReturnInert(c, CaptureError(NotInitialized))
    /\ UNCHANGED <<mgrVars, now, files, overwritten, quota, args, ctxLive, listening,
                   dialogCh, raised, first, unobserved, start, deadline, waitSec, dlg,
                   proof, effects>>

\* manager.go:233-235: ctx, cancel := m.newContext(parent); defer cancel()
CS_newContext(c) ==
    /\ pc[c] = "cs:newContext"
    /\ ctxLive' = [ctxLive EXCEPT ![c] = TRUE]
    /\ effects' = [effects EXCEPT ![c].context = TRUE]
    /\ pc' = [pc EXCEPT ![c] = "cs:screenshot"]
    /\ UNCHANGED <<mgrVars, now, files, overwritten, quota, args, listening, dialogCh,
                   raised, first, unobserved, start, deadline, waitSec, dlg, proof,
                   result>>

\* manager.go:237-245: FullScreenshot returned; convert; return
CS_Screenshot(c, shot) ==
    /\ pc[c] = "cs:screenshot"
    /\ effects' = [effects EXCEPT ![c].screenshot = TRUE]
    /\ LET jpg == convertPNGtoJPG(shot, JPEGQuality)
       IN  ReturnCancel(c, IF shot = "error" THEN CaptureError("screenshot failed")
                           ELSE IF jpg.err THEN CaptureError("image: unknown format")
                           ELSE CaptureOK(jpg.bytes))
    /\ UNCHANGED <<mgrVars, now, files, overwritten, quota, args, raised, first,
                   unobserved, waitSec, dlg>>

(* ------------------- the out-of-process driver ------------------------ *)
\* Go's integer division truncates toward zero
GoDiv(a, b) == IF a >= 0 THEN a \div b ELSE -((-a) \div b)

\* strconv.Itoa on the Go side, then parseInt(arg) || dflt in the script:
\* the decimal string parses back to the number, and 0 is falsy
ParseIntOr(n, dflt) == IF n = 0 THEN dflt ELSE n

\* headless.go:41-52 and puppeteer_verifier.js:129-133: the argument vector
PuppeteerArgs(url, sessionID, headlessTimeout) ==
    [url |-> url, payload |-> "[headless-check]", fn |-> "verifyXSS",
     entry |-> "checkXSSWithPuppeteer", sessionID |-> sessionID, contextStr |-> "headless",
     timeout |-> ParseIntOr(headlessTimeout, ScriptDefaultTimeout),
     waitTime |-> ParseIntOr(GoDiv(headlessTimeout, 6), ScriptDefaultWait)]

\* checkXSSWithPuppeteer(url, options) with options.HeadlessTimeout, in the process
\* whose manager is the package-level browserMgr
checkXSSWithPuppeteer(c, url, sessionID, headlessTimeout) ==
    /\ config = HeadlessConfig
    /\ Enter(c, PuppeteerArgs(url, sessionID, headlessTimeout), "px:exec")

\* puppeteer_verifier.js:106-113: the catch block's result
CaughtResult(msg) ==
    [NoResult EXCEPT !.Error = msg, !.path = "caught"]

\* puppeteer_verifier.js:99-103
NotDetectedResult(c) ==
    [NoResult EXCEPT !.ValidationDuration = Since(start[c]), !.path = "wait-timeout"]

\* puppeteer_verifier.js:82-97
DetectedResult(c, title) ==
    [NoResult EXCEPT
        !.IsVulnerable = TRUE,
        !.ExecutionDetected = TRUE,
        !.ExecutionProofs =
            << [PayloadSHA256 |-> sha256Hex(args[c].payload),
                ExecutionType |-> dlg[c].Type,
                Evidence |-> dlg[c].Message,
                PageURL |-> args[c].url,
                PageTitle |-> title,
                ExecutionContext |-> "headless",
                ScreenshotPath |-> proof[c].ScreenshotPath,
                ScreenshotData |-> proof[c].ScreenshotData] >>,
        !.ValidationDuration = Since(start[c]),
        !.path = "dialog"]

\* a reading of the child's output that trusts nothing but success: any failure
\* of the process counts as a detection
OutputVerdict_FailOpen(exitOK, parsable, res) ==
    ~exitOK \/ ~parsable \/ res.ExecutionDetected

\* headless.go:54-83: err from cmd.Output() (the process did not start, or exited
\* non-zero) returns false; a json.Unmarshal error returns false; otherwise the
\* bool is result.ExecutionDetected
OutputVerdict(exitOK, parsable, res) ==
    IF ~exitOK THEN FALSE
    ELSE IF ~parsable THEN FALSE
    ELSE res.ExecutionDetected

\* headless.go:54-58, 70-73: what checkXSSWithPuppeteer hands back when the
\* process or its output failed
ProcessFailure(label, exitOK, parsable, res) ==
    [NoResult EXCEPT !.returned = TRUE, !.path = label,
                     !.bool = OutputVerdict(exitOK, parsable, res)]

\* headless.go:54-58: cmd.Output() could not start the process
PX_ExecFails(c) ==
    /\ pc[c] = "px:exec"
    /\ ReturnInert(c, ProcessFailure("process-error", FALSE, FALSE, result[c]))
    /\ UNCHANGED <<mgrVars, now, files, overwritten, quota, args, ctxLive, listening,
                   dialogCh, raised, first, unobserved, start, deadline, waitSec, dlg,
                   proof, effects>>

\* puppeteer_verifier.js:10-22: puppeteer.launch resolves; the browser is live
PX_Launch(c) ==
    /\ pc[c] = "px:exec"
    /\ ctxLive' = [ctxLive EXCEPT ![c] = TRUE]
    /\ effects' = [effects EXCEPT ![c].context = TRUE]
    /\ waitSec' = [waitSec EXCEPT ![c] = args[c].waitTime]
    /\ pc' = [pc EXCEPT ![c] = "px:on"]
    /\ UNCHANGED <<mgrVars, now, files, overwritten, quota, args, listening, dialogCh,
                   raised, first, unobserved, start, deadline, dlg, proof, result>>

\* puppeteer_verifier.js:10, 106-118: puppeteer.launch throws; browser is undefined
PX_LaunchFails(c) ==
    /\ pc[c] = "px:exec"
    /\ result' = [result EXCEPT ![c] = CaughtResult("Failed to launch the browser process")]
    /\ pc' = [pc EXCEPT ![c] = "px:exit"]
    /\ UNCHANGED <<mgrVars, now, files, overwritten, quota, args, ctxLive, listening,
                   dialogCh, raised, first, unobserved, start, deadline, waitSec, dlg,
                   proof, effects>>

\* puppeteer_verifier.js:24-27, 106-118: browser.newPage or page.setViewport
\* rejects; the catch block builds its result and finally closes the live browser
PX_SetupThrows(c) ==
    /\ pc[c] = "px:on"
    /\ result' = [result EXCEPT ![c] = CaughtResult("Protocol error")]
    /\ pc' = [pc EXCEPT ![c] = "px:finally"]
    /\ UNCHANGED <<mgrVars, now, files, overwritten, quota, args, ctxLive, listening,
                   dialogCh, raised, first, unobserved, start, deadline, waitSec, dlg,
                   proof, effects>>

\* puppeteer_verifier.js:24-42: newPage and setViewport resolve;
\* dialogDetected = false; page.on('dialog', ...)
PX_On(c) ==
    /\ pc[c] = "px:on"
    /\ dlg' = [dlg EXCEPT ![c] = NoDialog]
    /\ listening' = [listening EXCEPT ![c] = TRUE]
    /\ pc' = [pc EXCEPT ![c] = "px:goto"]
    /\ UNCHANGED <<mgrVars, now, files, overwritten, quota, args, ctxLive, dialogCh,
                   raised, first, unobserved, start, deadline, waitSec, proof, effects,
                   result>>

\* the deadline page.goto works under when given {timeout: timeout * 1000}: a
\* positive timeout arms a timer; with a timeout that is not positive no timer
\* runs and the navigation ends only by resolving or by a network error (the
\* deadline then lies beyond the clock)
GotoDeadline(timeout) == IF timeout > 0 THEN now + timeout ELSE MaxTime + 1

\* puppeteer_verifier.js:45-48: page.goto(url, {timeout: timeout * 1000})
PX_Goto(c) ==
    /\ pc[c] = "px:goto"
    /\ deadline' = [deadline EXCEPT ![c] = GotoDeadline(args[c].timeout)]
    /\ effects' = [effects EXCEPT ![c].navigated = TRUE]
    /\ pc' = [pc EXCEPT ![c] = "px:navigating"]
    /\ UNCHANGED <<mgrVars, now, files, overwritten, quota, args, ctxLive, listening,
                   dialogCh, raised, first, unobserved, start, waitSec, dlg, proof,
                   result>>

\* puppeteer_verifier.js:45-54: goto resolved; startTime = Date.now(); the polling loop starts
PX_GotoOK(c) ==
    /\ pc[c] = "px:navigating"
    /\ now < deadline[c]
    /\ start' = [start EXCEPT ![c] = now]
    /\ deadline' = [deadline EXCEPT ![c] = now + args[c].waitTime]
    /\ effects' = [effects EXCEPT ![c].loaded = TRUE]
    /\ pc' = [pc EXCEPT ![c] = "px:wait"]
    /\ UNCHANGED <<mgrVars, now, files, overwritten, quota, args, ctxLive, listening,
                   dialogCh, raised, first, unobserved, waitSec, dlg, proof, result>>

\* puppeteer_verifier.js:45-48, 106-113: goto rejected (network error or timeout)
PX_GotoThrows(c, msg) ==
    /\ pc[c] = "px:navigating"
    /\ IF msg = "TimeoutError" THEN now >= deadline[c] ELSE now < deadline[c]
    /\ result' = [result EXCEPT ![c] = CaughtResult(msg)]
    /\ deadline' = [deadline EXCEPT ![c] = NoDeadline]
    /\ pc' = [pc EXCEPT ![c] = "px:finally"]
    /\ UNCHANGED <<mgrVars, now, files, overwritten, quota, args, ctxLive, listening,
                   dialogCh, raised, first, unobserved, start, waitSec, dlg, proof,
                   effects>>

\* puppeteer_verifier.js:52-56, 98-104: the loop ends: a dialog was seen or the window is over
PX_WaitDone(c) ==
    /\ pc[c] = "px:wait"
    /\ dlg[c] # NoDialog \/ now >= deadline[c]
    /\ deadline' = [deadline EXCEPT ![c] = NoDeadline]
    /\ IF dlg[c] # NoDialog
       THEN /\ pc' = [pc EXCEPT ![c] = "px:screenshot"]
            /\ UNCHANGED result
       ELSE /\ pc' = [pc EXCEPT ![c] = "px:finally"]
            /\ result' = [result EXCEPT ![c] = NotDetectedResult(c)]
    /\ UNCHANGED <<mgrVars, now, files, overwritten, quota, args, ctxLive, listening,
                   dialogCh, raised, first, unobserved, start, waitSec, dlg, proof,
                   effects>>

\* puppeteer_verifier.js:58-77: page.screenshot resolved; name the file and write it
PX_Screenshot(c) ==
    /\ pc[c] = "px:screenshot"
    /\ LET path == outPath(args[c].url, args[c].payload, now)
       IN  /\ proof' = [proof EXCEPT ![c].ScreenshotPath = path,
                                     ![c].ScreenshotData = base64(<<"jpeg", JPEGQuality>>)]
           /\ files' = files \cup {path}
           /\ overwritten' = (overwritten \/ path \in files)
    /\ effects' = [effects EXCEPT ![c].screenshot = TRUE, ![c].wrote = TRUE]
    /\ pc' = [pc EXCEPT ![c] = "px:title"]
    /\ UNCHANGED <<mgrVars, now, quota, args, ctxLive, listening, dialogCh, raised, first,
                   unobserved, start, deadline, waitSec, dlg, result>>

\* where the script's capture block can throw: page.screenshot rejects, or
\* fs.writeFileSync throws at its open or after it
CaptureFailures == {"screenshot", "open-failed", "write-failed"}

\* puppeteer_verifier.js:58-77, 106-113: page.screenshot rejected, or writeFileSync
\* threw; a write that failed after its open leaves the path created or truncated
PX_CaptureThrows(c, fail) ==
    /\ pc[c] = "px:screenshot"
    /\ effects' = [effects EXCEPT ![c].screenshot = TRUE, ![c].wrote = (fail # "screenshot")]
    /\ result' = [result EXCEPT ![c] =
                    CaughtResult(CASE fail = "screenshot" -> "Protocol error"
                                   [] fail = "open-failed" -> "EACCES: permission denied"
                                   [] OTHER -> "ENOSPC: no space left on device")]
    /\ LET path == outPath(args[c].url, args[c].payload, now)
       IN  /\ files' = IF fail = "write-failed" THEN files \cup {path} ELSE files
           /\ overwritten' = (overwritten \/ (fail = "write-failed" /\ path \in files))
    /\ pc' = [pc EXCEPT ![c] = "px:finally"]
    /\ UNCHANGED <<mgrVars, now, quota, args, ctxLive, listening,
                   dialogCh, raised, first, unobserved, start, deadline, waitSec, dlg,
                   proof>>

\* puppeteer_verifier.js:80-97: page.title() resolved; the detected result
PX_Title(c, title) ==
    /\ pc[c] = "px:title"
    /\ result' = [result EXCEPT ![c] = DetectedResult(c, title)]
    /\ pc' = [pc EXCEPT ![c] = "px:finally"]
    /\ UNCHANGED <<mgrVars, now, files, overwritten, quota, args, ctxLive, listening,
                   dialogCh, raised, first, unobserved, start, deadline, waitSec, dlg,
                   proof, effects>>

\* puppeteer_verifier.js:80, 106-113: page.title() rejected
PX_TitleThrows(c) ==
    /\ pc[c] = "px:title"
    /\ result' = [result EXCEPT ![c] = CaughtResult("Protocol error")]
    /\ pc' = [pc EXCEPT ![c] = "px:finally"]
    /\ UNCHANGED <<mgrVars, now, files, overwritten, quota, args, ctxLive, listening,
                   dialogCh, raised, first, unobserved, start, deadline, waitSec, dlg,
                   proof, effects>>

\* puppeteer_verifier.js:114-118: finally { await browser.close() }
PX_Finally(c) ==
    /\ pc[c] = "px:finally"
    /\ ctxLive' = [ctxLive EXCEPT ![c] = FALSE]
    /\ listening' = [listening EXCEPT ![c] = FALSE]
    /\ pc' = [pc EXCEPT ![c] = "px:exit"]
    /\ UNCHANGED <<mgrVars, now, files, overwritten, quota, args, dialogCh, raised, first,
                   unobserved, start, deadline, waitSec, dlg, proof, effects, result>>

\* puppeteer_verifier.js:114-118, 139-142: browser.close() rejects (the browser is
\* already gone); verifyXSS rejects, main's catch calls process.exit(1)
PX_FinallyThrows(c) ==
    /\ pc[c] = "px:finally"
    /\ ctxLive' = [ctxLive EXCEPT ![c] = FALSE]
    /\ listening' = [listening EXCEPT ![c] = FALSE]
    /\ pc' = [pc EXCEPT ![c] = "px:exit1"]
    /\ UNCHANGED <<mgrVars, now, files, overwritten, quota, args, dialogCh, raised, first,
                   unobserved, start, deadline, waitSec, dlg, proof, effects, result>>

\* node starts and exits non-zero before verifyXSS runs (the script or the
\* puppeteer module cannot be loaded)
PX_ScriptFails(c) ==
    /\ pc[c] = "px:exec"
    /\ pc' = [pc EXCEPT ![c] = "px:exit1"]
    /\ UNCHANGED <<mgrVars, now, files, overwritten, quota, args, ctxLive, listening,
                   dialogCh, raised, first, unobserved, start, deadline, waitSec, dlg,
                   proof, effects, result>>

\* headless.go:54-58: cmd.Output() returns an *ExitError
PX_ExitNonZero(c) ==
    /\ pc[c] = "px:exit1"
    /\ result' = [result EXCEPT ![c] = ProcessFailure("exit-nonzero", FALSE, FALSE, @)]
    /\ pc' = [pc EXCEPT ![c] = "returned"]
    /\ start' = [start EXCEPT ![c] = 0]
    /\ proof' = [proof EXCEPT ![c] = NoProof]
    /\ UNCHANGED <<mgrVars, now, files, overwritten, quota, args, ctxLive, listening,
                   dialogCh, raised, first, unobserved, deadline, waitSec, dlg, effects>>

\* headless.go:70-73: the process exited 0 but its standard output is not the
\* expected JSON object
PX_Unparsable(c) ==
    /\ pc[c] = "px:exit"
    /\ result' = [result EXCEPT ![c] = ProcessFailure("unparsable", TRUE, FALSE, @)]
    /\ pc' = [pc EXCEPT ![c] = "returned"]
    /\ start' = [start EXCEPT ![c] = 0]
    /\ proof' = [proof EXCEPT ![c] = NoProof]
    /\ UNCHANGED <<mgrVars, now, files, overwritten, quota, args, ctxLive, listening,
                   dialogCh, raised, first, unobserved, deadline, waitSec, dlg, effects>>

\* puppeteer_verifier.js:135-138 and headless.go:54-83: the script prints its
\* result and exits 0; cmd.Output returns; the JSON is parsed into the bool
PX_Exit(c) ==
    /\ pc[c] = "px:exit"
    /\ result' = [result EXCEPT ![c].returned = TRUE,
                                ![c].bool = OutputVerdict(TRUE, TRUE, result[c])]
    /\ pc' = [pc EXCEPT ![c] = "returned"]
    /\ start' = [start EXCEPT ![c] = 0]
    /\ proof' = [proof EXCEPT ![c] = NoProof]
    /\ UNCHANGED <<mgrVars, now, files, overwritten, quota, args, ctxLive, listening,
                   dialogCh, raised, first, unobserved, deadline, waitSec, dlg, effects>>

(* ---------------------------- environment ----------------------------- *)
\* pages exist from the start of navigation until the context is cancelled: for
\* ValidatePayload until the deferred cancel() of the return, for the script
\* until the browser.close() of the finally block has resolved, so the page a
\* goto was started on is still there while close is pending
PageLoaded(c) ==
    \/ pc[c] \in {"vp:navigating", "vp:select", "vp:screenshot", "vp:title",
                 "px:navigating", "px:wait", "px:screenshot", "px:title"}
    \/ pc[c] = "px:finally" /\ effects[c].navigated

\* the handler of puppeteer_verifier.js:33-38: dialogInfo is replaced by the
\* event's type and message; the handler then awaits dialog.dismiss()
OnDialog(info, ev) == ev

\* who answers a dialog: the handler of puppeteer_verifier.js:33-42 ends with
\* await dialog.dismiss(); the listener of manager.go:120-128 only forwards the
\* event, and nothing in ValidatePayload answers the dialog afterwards
Dismisses(fn) == fn = "verifyXSS"

\* the node process is running the script and its browser page exists or existed
ScriptRunning(c) ==
    pc[c] \in {"px:navigating", "px:wait", "px:screenshot", "px:title", "px:finally", "px:exit"}

\* puppeteer_verifier.js:41: the pending dialog.dismiss() resolves; the dialog is
\* answered, while the script has gone on in the meantime
PX_Dismissed(c) ==
    /\ Dismisses(args[c].fn)
    /\ ScriptRunning(c)
    /\ effects[c].open
    /\ effects' = [effects EXCEPT ![c].open = FALSE]
    /\ UNCHANGED <<mgrVars, now, files, overwritten, quota, pc, args, ctxLive, listening,
                   dialogCh, raised, first, unobserved, start, deadline, waitSec, dlg,
                   proof, result>>

\* puppeteer_verifier.js:33-42: the pending dialog.dismiss() rejects inside the
\* async handler, which nothing awaits: an unhandled rejection, on which node
\* exits non-zero at once, without printing a result and without running the
\* catch or finally block of verifyXSS. browser.close() is not called on this
\* path: the browser is a child process of node and ends with it
PX_DismissRejects(c) ==
    /\ Dismisses(args[c].fn)
    /\ ScriptRunning(c)
    /\ effects[c].open
    /\ pc' = [pc EXCEPT ![c] = "px:exit1"]
    /\ listening' = [listening EXCEPT ![c] = FALSE]
    /\ deadline' = [deadline EXCEPT ![c] = NoDeadline]
    /\ ctxLive' = [ctxLive EXCEPT ![c] = FALSE]
    /\ UNCHANGED <<mgrVars, now, files, overwritten, quota, args, dialogCh, raised, first,
                   unobserved, start, waitSec, dlg, proof, effects, result>>

\* where the call is when its page raises a dialog
Phase(c) ==
    IF pc[c] \in {"vp:navigating", "px:navigating"} THEN "load"
    ELSE IF pc[c] \in {"vp:select", "px:wait"} /\ now < deadline[c] THEN "wait"
    ELSE "late"

\* the listener callback of manager.go:120-128: non-blocking send, dropped when full
Listener(ch, ev) == IF Len(ch) < 1 THEN Append(ch, ev) ELSE ch

\* one browser shared by all calls: a dialog event reaches every registered listener
PageDialog_Broadcast(c, ev) ==
    /\ PageLoaded(c)
    /\ ctxLive[c]
    /\ raised[c] < MaxDialogs
    /\ pc[c] \in {"vp:navigating", "px:navigating"} => now < deadline[c]
    /\ raised' = [raised EXCEPT ![c] = @ + 1]
    /\ first' = [first EXCEPT ![c] = IF raised[c] = 0 THEN ev ELSE @]
    /\ effects' = [effects EXCEPT
                       ![c].firstAt = IF raised[c] = 0 THEN Phase(c) ELSE @,
                       ![c].open = TRUE]
    /\ dialogCh' = [d \in Calls |-> IF listening[d] THEN Listener(dialogCh[d], ev)
                                     ELSE dialogCh[d]]
    /\ UNCHANGED <<mgrVars, now, files, overwritten, quota, pc, args, ctxLive,
                   listening, start, deadline, waitSec, proof, result, dlg, unobserved>>

\* script on the page of call c opens a dialog; the browser reports it to the
\* listeners registered on that target; the dialog is open until someone answers it
PageDialog(c, ev) ==
    /\ PageLoaded(c)
    /\ ctxLive[c]
    /\ raised[c] < MaxDialogs
    /\ pc[c] \in {"vp:navigating", "px:navigating"} => now < deadline[c]
    /\ raised' = [raised EXCEPT ![c] = @ + 1]
    /\ first' = [first EXCEPT ![c] = IF raised[c] = 0 THEN ev ELSE @]
    /\ effects' = [effects EXCEPT
                       ![c].firstAt = IF raised[c] = 0 THEN Phase(c) ELSE @,
                       ![c].open = TRUE]
    /\ IF ~listening[c]
       THEN /\ unobserved' = [unobserved EXCEPT ![c] = TRUE]
            /\ UNCHANGED <<dialogCh, dlg>>
       ELSE IF args[c].fn = "verifyXSS"
       THEN /\ dlg' = [dlg EXCEPT ![c] = OnDialog(@, ev)]
            /\ UNCHANGED <<dialogCh, unobserved>>
       ELSE /\ dialogCh' = [dialogCh EXCEPT ![c] = Listener(@, ev)]
            /\ UNCHANGED <<dlg, unobserved>>
    /\ UNCHANGED <<mgrVars, now, files, overwritten, quota, pc, args, ctxLive,
                   listening, start, deadline, waitSec, proof, result>>

\* a call is blocked on the browser or on a timer, so that time may pass
Blocked(c) ==
    \/ pc[c] = "vp:navigating" /\ now < deadline[c]
    \/ pc[c] = "vp:select" /\ now < deadline[c] /\ Len(dialogCh[c]) = 0
    \/ pc[c] \in {"vp:screenshot", "vp:title", "cs:screenshot"}
    \/ pc[c] = "px:navigating" /\ now < deadline[c]
    \/ pc[c] = "px:wait" /\ now < deadline[c] /\ dlg[c] = NoDialog
    \/ pc[c] \in {"px:screenshot", "px:title", "px:finally"}

\* one second passes: some call is blocked, no call is at a step that takes
\* no time and no expired deadline is pending
Tick ==
    /\ now < MaxTime
    /\ \A c \in Calls : Free(c) \/ Blocked(c)
    /\ \E c \in Calls : Blocked(c)
    /\ now' = now + 1
    /\ UNCHANGED <<mgrVars, files, overwritten, quota, pc, args, ctxLive, listening,
                   dialogCh, raised, first, unobserved, start, deadline, waitSec, dlg, proof,
                   effects, result>>

(* ------------------------------- Next --------------------------------- *)
Next ==
    \/ Initialize
    \/ Shutdown
    \/ Tick
    \/ \E c \in Calls, u \in URLs, sid \in SessionIDs :
          \/ \E p \in Payloads, x \in Contexts : ValidatePayload(c, sid, u, p, x)
          \/ VerifyStoredXSS(c, u, sid)
    \/ \E c \in Calls, sid \in SessionIDs : CaptureScreenshot(c, sid)
    \/ \E c \in Calls :
          \/ VP_IsInitialized(c)
          \/ VP_newContext(c)
          \/ VP_ListenTarget(c)
          \/ VP_Navigate(c)
          \/ VP_NavigateOK(c)
          \/ \E e \in NetErrors : VP_NavigateError(c, e)
          \/ VP_NavigateTimeout(c)
          \/ VP_SelectDialog(c)
          \/ VP_SelectTimeout(c)
          \/ \E shot \in ScreenshotOutcomes, w \in WriteOutcomes : VP_Screenshot(c, shot, w)
          \/ \E t \in {"", "Title"} : VP_Title(c, t)
          \/ \E ev \in DialogEvents : PageDialog(c, ev)
          \/ CS_IsInitialized(c)
          \/ CS_newContext(c)
          \/ \E shot \in ScreenshotOutcomes : CS_Screenshot(c, shot)

\* one call on a Manager of any configuration, with Initialize and Shutdown
\* called at any time
Init == InitWith(BrowserConfig, [c \in Calls |-> IF c = 1 THEN 1 ELSE 0])
Spec == Init /\ [][Next]_vars

(* ------------------- the scanner's headless check --------------------- *)
\* package scanning: one CheckXSSWithHeadless call on one URL, with either
\* backend, on the package-level browserMgr, which init() has initialized and
\* which nothing in the package shuts down
NextHeadless ==
    \/ Tick
    \/ \E c \in Calls, sid \in SessionIDs :
          \/ checkXSSWithChromedp(c, "http://t/a", sid)
          \/ \E ht \in HeadlessTimeouts : checkXSSWithPuppeteer(c, "http://t/a", sid, ht)
    \/ \E c \in Calls :
          \/ VP_IsInitialized(c)
          \/ VP_newContext(c)
          \/ VP_ListenTarget(c)
          \/ VP_Navigate(c)
          \/ VP_NavigateOK(c)
          \/ \E e \in NetErrors : VP_NavigateError(c, e)
          \/ VP_SelectDialog(c)
          \/ VP_SelectTimeout(c)
          \/ \E shot \in ScreenshotOutcomes, w \in WriteOutcomes : VP_Screenshot(c, shot, w)
          \/ \E t \in {"", "Title"} : VP_Title(c, t)
          \/ \E ev \in DialogEvents : PageDialog(c, ev)
          \/ PX_ExecFails(c)
          \/ PX_Launch(c)
          \/ PX_LaunchFails(c)
          \/ PX_SetupThrows(c)
          \/ PX_On(c)
          \/ PX_Dismissed(c)
          \/ PX_DismissRejects(c)
          \/ PX_Goto(c)
          \/ PX_GotoOK(c)
          \/ \E msg \in {"net::ERR_CONNECTION_REFUSED", "TimeoutError"} : PX_GotoThrows(c, msg)
          \/ PX_WaitDone(c)
          \/ PX_Screenshot(c)
          \/ \E f \in CaptureFailures : PX_CaptureThrows(c, f)
          \/ \E t \in {"", "Title"} : PX_Title(c, t)
          \/ PX_TitleThrows(c)
          \/ PX_Finally(c)
          \/ PX_FinallyThrows(c)
          \/ PX_ScriptFails(c)
          \/ PX_ExitNonZero(c)
          \/ PX_Unparsable(c)
          \/ PX_Exit(c)

InitOneHeadless == InitHeadless([c \in Calls |-> IF c = 1 THEN 1 ELSE 0])
SpecHeadless == InitOneHeadless /\ [][NextHeadless]_vars

(* ------------------------ two concurrent calls ------------------------ *)
\* the configuration of the two-call runs: 2 s to navigate, 2 s to wait
PairConfig == [Timeout |-> 2, WaitForAlertOnlyTime |-> 2, TakeScreenshots |-> TRUE]

\* the dialogs the pages of the two-call runs raise
PairDialogs == { [Type |-> "alert", Message |-> "xss"], [Type |-> "confirm", Message |-> "1"] }

\* in the two-call runs the browser answers the capture and the title query
\* within the second: time passes only while a call navigates or waits
PromptTick ==
    /\ \A c \in Calls : pc[c] \notin {"vp:screenshot", "vp:title"}
    /\ Tick

\* two goroutines, each running one stored-XSS check, on the same URL or not:
\* VerifyStoredXSS, and the ValidatePayload call it stands for; the capture
\* succeeds, the write may fail
NextTwo ==
    \/ Initialize
    \/ PromptTick
    \/ \E u \in URLs, sid \in SessionIDs :
          \/ VerifyStoredXSS(1, u, sid)
          \/ ValidatePayload(2, sid, u, "[stored-check]", "stored")
    \/ \E c \in Calls :
          \/ VP_IsInitialized(c)
          \/ VP_newContext(c)
          \/ VP_ListenTarget(c)
          \/ VP_Navigate(c)
          \/ VP_NavigateOK(c)
          \/ \E e \in NetErrors : VP_NavigateError(c, e)
          \/ VP_NavigateTimeout(c)
          \/ VP_SelectDialog(c)
          \/ VP_SelectTimeout(c)
          \/ \E w \in WriteOutcomes : VP_Screenshot(c, "png", w)
          \/ VP_Title(c, "Title")
          \/ \E ev \in PairDialogs : PageDialog(c, ev)

InitTwo == InitWith({PairConfig}, [c \in Calls |-> 1])
SpecTwo == InitTwo /\ [][NextTwo]_vars

(* ---------------------- the two backends side by side ----------------- *)
\* the dialogs the pages of the side-by-side runs raise
BackendDialogs ==
    { [Type |-> "alert", Message |-> "xss"], [Type |-> "beforeunload", Message |-> ""] }

\* in the side-by-side runs the browser answers the capture, the title query and
\* the close within the second: time passes only while a call navigates or waits
BackendsTick ==
    /\ \A c \in Calls : pc[c] \notin {"vp:screenshot", "vp:title", "px:screenshot", "px:title",
                                       "px:finally"}
    /\ Tick

\* CheckXSSWithHeadless on one URL, once with each backend: slot 1 runs
\* checkXSSWithChromedp, slot 2 checkXSSWithPuppeteer with HeadlessTimeout 30,
\* so that the script gets the manager's 30 s and 5 s. The node process starts,
\* exits 0 and prints its JSON; the title query succeeds; the page raises at
\* most one dialog; the navigation outcome, the dialog, the capture and the
\* write are the browser's.
NextBackends ==
    \/ BackendsTick
    \/ \E sid \in SessionIDs :
          \/ checkXSSWithChromedp(1, "http://t/a", sid)
          \/ checkXSSWithPuppeteer(2, "http://t/a", sid, HeadlessConfig.Timeout)
    \/ \E c \in Calls :
          \/ VP_IsInitialized(c)
          \/ VP_newContext(c)
          \/ VP_ListenTarget(c)
          \/ VP_Navigate(c)
          \/ VP_NavigateOK(c)
          \/ \E e \in NetErrors : VP_NavigateError(c, e)
          \/ VP_SelectDialog(c)
          \/ VP_SelectTimeout(c)
          \/ \E shot \in {"error", "png"}, w \in WriteOutcomes : VP_Screenshot(c, shot, w)
          \/ VP_Title(c, "Title")
          \/ \E ev \in BackendDialogs : raised[c] = 0 /\ PageDialog(c, ev)
          \/ PX_Launch(c)
          \/ PX_On(c)
          \/ PX_Dismissed(c)
          \/ PX_Goto(c)
          \/ PX_GotoOK(c)
          \/ PX_GotoThrows(c, "net::ERR_CONNECTION_REFUSED")
          \/ PX_WaitDone(c)
          \/ PX_Screenshot(c)
          \/ \E f \in CaptureFailures : PX_CaptureThrows(c, f)
          \/ PX_Title(c, "Title")
          \/ PX_Finally(c)
          \/ PX_Exit(c)

InitBackends == InitHeadless([c \in Calls |-> 1])
SpecBackends == InitBackends /\ [][NextBackends]_vars

(* -------------------- a host without a browser ------------------------ *)
\* what chromedp.Run reports when the allocator cannot start Chrome
ExecNotFound == "exec: \"google-chrome\": executable file not found in $PATH"

\* the manager on a host where no Chrome or Chromium executable exists: the
\* first chromedp.Run of a call is where the allocator tries to start the
\* browser, and it fails there; no page ever loads
NextNoBrowser ==
    \/ Initialize
    \/ Shutdown
    \/ \E c \in Calls, u \in URLs, sid \in SessionIDs :
          \/ \E p \in Payloads, x \in Contexts : ValidatePayload(c, sid, u, p, x)
          \/ VerifyStoredXSS(c, u, sid)
    \/ \E c \in Calls, sid \in SessionIDs : CaptureScreenshot(c, sid)
    \/ \E c \in Calls :
          \/ VP_IsInitialized(c)
          \/ VP_newContext(c)
          \/ VP_ListenTarget(c)
          \/ VP_Navigate(c)
          \/ VP_NavigateError(c, ExecNotFound)
          \/ CS_IsInitialized(c)
          \/ CS_newContext(c)
          \/ CS_Screenshot(c, "error")

InitNoBrowser == InitWith(BrowserConfig, [c \in Calls |-> 2])
SpecNoBrowser == InitNoBrowser /\ [][NextNoBrowser]_vars

(* --------------- the arguments handed to the script ------------------- *)
\* options.HeadlessTimeout ranges over -MaxHeadlessTimeout .. MaxHeadlessTimeout
MaxHeadlessTimeout == 13
HeadlessTimeoutRange == (0 - MaxHeadlessTimeout) .. MaxHeadlessTimeout

\* checkXSSWithPuppeteer called with any HeadlessTimeout of the range; node
\* starts the script, which parses its arguments and launches the browser
NextArgs ==
    \/ \E c \in Calls, u \in URLs, sid \in SessionIDs, ht \in HeadlessTimeoutRange :
          checkXSSWithPuppeteer(c, u, sid, ht)
    \/ \E c \in Calls :
          \/ PX_ExecFails(c)
          \/ PX_Launch(c)

InitArgs == InitHeadless([c \in Calls |-> 1])
SpecArgs == InitArgs /\ [][NextArgs]_vars

(* ------------------ two callers, two session ids ---------------------- *)
\* the session id each caller passes
SessionOf == <<"s1", "s2">>

\* two goroutines on one URL, each with its own session id, each running one
\* of ValidatePayload, VerifyStoredXSS and CaptureScreenshot, while Initialize
\* and Shutdown may run at any time; the page raises at most one alert; the
\* capture succeeds, the write may fail
NextSessions ==
    \/ Initialize
    \/ Shutdown
    \/ PromptTick
    \/ \E c \in Calls :
          \/ ValidatePayload(c, SessionOf[c], "http://t/a", "[stored-check]", "stored")
          \/ VerifyStoredXSS(c, "http://t/a", SessionOf[c])
          \/ CaptureScreenshot(c, SessionOf[c])
          \/ VP_IsInitialized(c)
          \/ VP_newContext(c)
          \/ VP_ListenTarget(c)
          \/ VP_Navigate(c)
          \/ VP_NavigateOK(c)
          \/ \E e \in NetErrors : VP_NavigateError(c, e)
          \/ VP_NavigateTimeout(c)
          \/ VP_SelectDialog(c)
          \/ VP_SelectTimeout(c)
          \/ \E w \in WriteOutcomes : VP_Screenshot(c, "png", w)
          \/ VP_Title(c, "Title")
          \/ raised[c] = 0 /\ PageDialog(c, [Type |-> "alert", Message |-> "xss"])
          \/ CS_IsInitialized(c)
          \/ CS_newContext(c)
          \/ CS_Screenshot(c, "png")

InitSessions == InitWith({PairConfig}, [c \in Calls |-> 1])
SpecSessions == InitSessions /\ [][NextSessions]_vars

(* =============================== claims =============================== *)
\* the call in slot c runs Manager.ValidatePayload (directly, or through
\* VerifyStoredXSS or checkXSSWithChromedp)
IsVP(c) == args[c].fn = "ValidatePayload"
ReturnedVP(c) == IsVP(c) /\ result[c].returned

\* C1: a result returned by ValidatePayload carries a proof exactly when the
\* select received a dialog event, that event being one raised by the call's own
\* page; it then carries exactly one proof; the not-initialized, navigation-error
\* and wait-timeout results carry none.
C1_ProofIffDialogReceived ==
    \A c \in Calls :
        ReturnedVP(c) =>
            /\ Len(result[c].ExecutionProofs) > 0 <=> dlg[c] # NoDialog
            /\ Len(result[c].ExecutionProofs) <= 1
            /\ dlg[c] # NoDialog => dlg[c] = first[c]
            /\ result[c].path \in {"not-initialized", "navigation-error", "wait-timeout"}
                  => result[c].ExecutionProofs = <<>>

\* C1 witness: a returned result with one proof after a received dialog
C1_Witness ==
    \E c \in Calls :
        /\ ReturnedVP(c)
        /\ dlg[c] # NoDialog
        /\ Len(result[c].ExecutionProofs) = 1

\* C2: once the select has received a dialog, the returned verdict is
\* IsVulnerable = ExecutionDetected = TRUE with no Error, whatever the screenshot,
\* the conversion, the file write and the title query did.
C2_VerdictIndependentOfCapture ==
    \A c \in Calls :
        ReturnedVP(c) /\ dlg[c] # NoDialog =>
            /\ result[c].IsVulnerable
            /\ result[c].ExecutionDetected
            /\ result[c].Error = ""

\* C2 witness: a confirmed result whose file write was attempted and failed and
\* whose title query failed
C2_Witness ==
    \E c \in Calls :
        /\ ReturnedVP(c)
        /\ dlg[c] # NoDialog
        /\ effects[c].wrote
        /\ result[c].ExecutionProofs[1].ScreenshotPath = <<>>
        /\ result[c].ExecutionProofs[1].PageTitle = ""
        /\ result[c].IsVulnerable

\* C3: a dialog raised while the navigation is in progress leads to a result
\* with ExecutionDetected = TRUE and one proof, however the navigation ends.
C3_DialogDuringLoadDetected ==
    \A c \in Calls :
        ReturnedVP(c) /\ effects[c].firstAt = "load" =>
            /\ result[c].ExecutionDetected
            /\ Len(result[c].ExecutionProofs) = 1

\* C4: a call that returns has taken at most navigation timeout + wait window
\* + Epsilon seconds.
C4_ReturnsWithinDeadlines ==
    \A c \in Calls :
        ReturnedVP(c) /\ result[c].ValidationDuration.set =>
            result[c].ValidationDuration.secs
                <= config.Timeout + WaitWindow(config) + Epsilon

\* C5: no call slot that is free (never used, or returned) holds a live browser
\* context: every context a call created is torn down when the call returns.
C5_ContextsTornDown ==
    \A c \in Calls : Free(c) => ~ctxLive[c]

\* C5 witness: a call that created a context and confirmed a dialog has returned
C5_Witness ==
    \E c \in Calls :
        /\ pc[c] = "returned"
        /\ effects[c].context
        /\ result[c].path = "dialog"
        /\ ~ctxLive[c]

\* C6: whenever the page of a call exists (navigation has begun and the call has
\* not returned), the call's dialog listener is armed, and no dialog was ever
\* raised without a listener.
C6_ListenerBeforeNavigation ==
    \A c \in Calls :
        /\ PageLoaded(c) => listening[c]
        /\ ~unobserved[c]

\* C6 witness: a dialog raised during page load sits in the listener's buffer
C6_Witness ==
    \E c \in Calls :
        /\ pc[c] = "vp:navigating"
        /\ listening[c]
        /\ raised[c] > 0
        /\ Len(dialogCh[c]) = 1

\* C7: navigation succeeded and the page raised no dialog before the wait
\* window elapsed: the result is the wait-timeout one, not vulnerable, no
\* execution detected, no proofs, no Error, and the call attempted neither a
\* screenshot nor a file write.
C7_NoDialogNoProofNoCapture ==
    \A c \in Calls :
        ReturnedVP(c) /\ effects[c].loaded /\ effects[c].firstAt \in {"none", "late"} =>
            /\ result[c].path = "wait-timeout"
            /\ ~result[c].IsVulnerable
            /\ ~result[c].ExecutionDetected
            /\ result[c].ExecutionProofs = <<>>
            /\ result[c].Error = ""
            /\ ~effects[c].screenshot
            /\ ~effects[c].wrote

\* C7 witness: the default window elapsed on a page that raised nothing
C7_Witness ==
    \E c \in Calls :
        /\ ReturnedVP(c)
        /\ effects[c].loaded
        /\ effects[c].firstAt = "none"
        /\ config.WaitForAlertOnlyTime <= 0
        /\ result[c].path = "wait-timeout"

\* C8: navigation succeeded and the page's first dialog was raised before the
\* wait window elapsed: ExecutionDetected, exactly one proof, its Evidence the
\* dialog's message and, for alert, confirm and prompt, its ExecutionType the
\* dialog's kind.
C8_ProofDescribesDialog ==
    \A c \in Calls :
        ReturnedVP(c) /\ effects[c].loaded /\ effects[c].firstAt \in {"load", "wait"} =>
            /\ result[c].ExecutionDetected
            /\ Len(result[c].ExecutionProofs) = 1
            /\ result[c].ExecutionProofs[1].Evidence = first[c].Message
            /\ first[c].Type \in {"alert", "confirm", "prompt"}
                  => result[c].ExecutionProofs[1].ExecutionType = first[c].Type

\* C8 witness: a confirm("1") raised inside the wait window is reported as such
C8_Witness ==
    \E c \in Calls :
        /\ ReturnedVP(c)
        /\ effects[c].firstAt = "wait"
        /\ first[c] = [Type |-> "confirm", Message |-> "1"]
        /\ Len(result[c].ExecutionProofs) = 1
        /\ result[c].ExecutionProofs[1].ExecutionType = "confirm"

\* C9: navigation started and failed: not vulnerable, no execution detected,
\* Error populated, duration set and at most the navigation timeout, no proofs,
\* no screenshot attempted, no file written.
C9_NavigationFailure ==
    \A c \in Calls :
        ReturnedVP(c) /\ effects[c].navigated /\ ~effects[c].loaded =>
            /\ ~result[c].IsVulnerable
            /\ ~result[c].ExecutionDetected
            /\ result[c].Error # ""
            /\ result[c].ValidationDuration.set
            /\ result[c].ValidationDuration.secs <= config.Timeout
            /\ result[c].ExecutionProofs = <<>>
            /\ ~effects[c].screenshot
            /\ ~effects[c].wrote

\* C9 witness: connection refused
C9_Witness ==
    \E c \in Calls :
        /\ ReturnedVP(c)
        /\ effects[c].navigated
        /\ ~effects[c].loaded
        /\ result[c].Error = "net::ERR_CONNECTION_REFUSED"

\* C10: when ValidatePayload or CaptureScreenshot runs its readiness check on a
\* manager that is not initialized, the call returns in that step with an Error,
\* not vulnerable, no execution detected, no proofs and no image bytes, and has
\* created no context, navigated nowhere and written no file.
C10_NotInitializedIsInert ==
    [][\A c \in Calls :
          (/\ pc[c] \in {"vp:isInitialized", "cs:isInitialized"}
           /\ pc'[c] # pc[c]
           /\ ~isInitialized)
          => /\ pc'[c] = "returned"
             /\ result'[c].returned
             /\ result'[c].Error # ""
             /\ ~result'[c].IsVulnerable
             /\ ~result'[c].ExecutionDetected
             /\ result'[c].ExecutionProofs = <<>>
             /\ result'[c].data = <<>>
             /\ ~effects'[c].context
             /\ ~effects'[c].navigated
             /\ ~effects'[c].wrote
             /\ ~ctxLive'[c]
             /\ files' = files]_vars

\* C10 witness: ValidatePayload returned the not-initialized result
C10_Witness ==
    \E c \in Calls :
        /\ ReturnedVP(c)
        /\ result[c].Error = NotInitialized
        /\ ~effects[c].context

\* C11: no call is at its capture step, at its title query or at its return
\* with a dialog of its page still open: the driver has dismissed or accepted
\* every dialog the page raised.
C11_NoDialogLeftOpen ==
    \A c \in Calls :
        pc[c] \in {"vp:screenshot", "vp:title", "px:screenshot", "px:title", "returned"}
            => ~effects[c].open

\* the call in slot c runs checkXSSWithPuppeteer
IsPX(c) == args[c].entry = "checkXSSWithPuppeteer"

\* C13: when the external process could not be started, exited non-zero, or
\* printed something that is not the expected JSON object, checkXSSWithPuppeteer
\* has returned normally with false, whatever the script had found.
C13_ProcessFailureIsFalse ==
    \A c \in Calls :
        IsPX(c) /\ result[c].path \in {"process-error", "exit-nonzero", "unparsable"} =>
            /\ pc[c] = "returned"
            /\ result[c].returned
            /\ ~result[c].bool
            /\ ~result[c].ExecutionDetected
            /\ ~result[c].IsVulnerable

\* C13 witness: the script had seen a dialog, its process then exited non-zero,
\* and the caller got false
C13_Witness ==
    \E c \in Calls :
        /\ IsPX(c)
        /\ pc[c] = "returned"
        /\ result[c].path = "exit-nonzero"
        /\ dlg[c] # NoDialog
        /\ ~result[c].bool

\* C16: once navigation has succeeded, the wait window ValidatePayload uses is
\* the configured WaitForAlertOnlyTime when that is positive and 5 seconds
\* otherwise, so at least 1 second; a call that returns because the window
\* elapsed has lasted at least that long.
C16_WaitWindowPositive ==
    \A c \in Calls :
        IsVP(c) /\ effects[c].loaded =>
            /\ waitSec[c] >= 1
            /\ waitSec[c] = IF config.WaitForAlertOnlyTime > 0
                             THEN config.WaitForAlertOnlyTime ELSE 5
            /\ pc[c] = "vp:select" => deadline[c] >= now
            /\ result[c].path = "wait-timeout"
                  => result[c].ValidationDuration.secs >= waitSec[c]

\* C16 witness: a negative configured window; the call waited the default 5 s
C16_Witness ==
    \E c \in Calls :
        /\ ReturnedVP(c)
        /\ config.WaitForAlertOnlyTime < 0
        /\ result[c].path = "wait-timeout"
        /\ waitSec[c] = 5
        /\ result[c].ValidationDuration.secs >= 5

\* C14: no write of a proof image ever hits a path that is already present.
C14_NoProofFileOverwritten == ~overwritten

\* C15: a call that persists an image at Unix second t adds the path made of
\* the 12-character hash prefixes of its url and of its payload and of t, and
\* keeps every file already present; a file persisted for the same url and
\* payload at another second differs from the new one in the timestamp only,
\* and is not overwritten.
C15_DistinctTimestampsDistinctFiles ==
    [][\A c \in Calls :
          (pc[c] = "vp:screenshot" /\ pc'[c] = "vp:title"
             /\ proof'[c].ScreenshotPath # <<>>)
          => LET new == proof'[c].ScreenshotPath
             IN  /\ new = [payload |-> prefix12(sha256Hex(args[c].payload)),
                           dir |-> "snapshots/jpg",
                           target |-> prefix12(sha256Hex(args[c].url)),
                           ts |-> now]
                 /\ files' = files \cup {new}
                 /\ \A f \in files :
                       (f.target = new.target /\ f.payload = new.payload /\ f.ts # now)
                          => f # new /\ [f EXCEPT !.ts = now] = new
                 /\ (\A f \in files : f.ts # now) => overwritten' = overwritten]_vars

\* C15 witness: both calls validated the same url and payload, captured in
\* different seconds, and both files are present
C15_Witness ==
    /\ ReturnedVP(1) /\ ReturnedVP(2)
    /\ args[1].url = args[2].url /\ args[1].payload = args[2].payload
    /\ Len(result[1].ExecutionProofs) = 1 /\ Len(result[2].ExecutionProofs) = 1
    /\ result[1].ExecutionProofs[1].ScreenshotPath \in files
    /\ result[2].ExecutionProofs[1].ScreenshotPath \in files
    /\ result[1].ExecutionProofs[1].ScreenshotPath.ts
          # result[2].ExecutionProofs[1].ScreenshotPath.ts
    /\ Cardinality(files) = 2
    /\ ~overwritten

\* C18: a call holds an event in its dialog channel only if its own page raised
\* a dialog, and what its select receives is the first dialog its own page
\* raised; a call whose page raised no dialog holds no event and returns
\* ExecutionDetected = FALSE with no proof, whatever the concurrent call observes.
C18_CallsIsolated ==
    \A c \in Calls :
        /\ Len(dialogCh[c]) > 0 => raised[c] > 0
        /\ dlg[c] # NoDialog => raised[c] > 0 /\ dlg[c] = first[c]
        /\ ReturnedVP(c) /\ raised[c] = 0 =>
              /\ ~result[c].ExecutionDetected
              /\ ~result[c].IsVulnerable
              /\ result[c].ExecutionProofs = <<>>

\* C18 witness: both calls wait in their select; the page of one has raised a
\* dialog, which sits in that call's channel, the other call has none
C18_Witness ==
    \E c, d \in Calls :
        /\ c # d
        /\ pc[c] = "vp:select" /\ pc[d] = "vp:select"
        /\ ctxLive[c] /\ ctxLive[d]
        /\ Len(dialogCh[c]) = 1
        /\ raised[d] = 0 /\ Len(dialogCh[d]) = 0

\* the fields of a result that do not depend on the clock or on the file system
Verdict(r) ==
    <<r.IsVulnerable, r.ExecutionDetected, r.Error = "", Len(r.ExecutionProofs),
      IF Len(r.ExecutionProofs) = 0 THEN <<>>
      ELSE <<r.ExecutionProofs[1].PayloadSHA256, r.ExecutionProofs[1].ExecutionType,
             r.ExecutionProofs[1].Evidence, r.ExecutionProofs[1].PageURL,
             r.ExecutionProofs[1].PageTitle, r.ExecutionProofs[1].ExecutionContext>> >>

\* C17: a VerifyStoredXSS(url, sessionID) call runs ValidatePayload with the
\* payload "[stored-check]" and the context "stored"; when it and a
\* ValidatePayload(sessionID, url, "[stored-check]", "stored") call have met the
\* same browser behaviour, whichever ran first, their results agree; and a
\* confirm() raised inside the wait window is reported with ExecutionType
\* "confirm" and ExecutionContext "stored".
C17_StoredCheckIsValidatePayload ==
    /\ \A c \in Calls :
          args[c].entry = "VerifyStoredXSS" =>
            /\ args[c].fn = "ValidatePayload"
            /\ args[c].payload = "[stored-check]"
            /\ args[c].contextStr = "stored"
            /\ args[c].url \in URLs
            /\ (result[c].returned /\ effects[c].loaded /\ effects[c].firstAt = "wait"
                   /\ first[c].Type = "confirm")
                  => /\ result[c].ExecutionDetected
                     /\ result[c].ExecutionProofs[1].ExecutionType = "confirm"
                     /\ result[c].ExecutionProofs[1].ExecutionContext = "stored"
    /\ \A c, d \in Calls :
          (/\ args[c].entry = "VerifyStoredXSS" /\ args[d].entry = "ValidatePayload"
           /\ result[c].returned /\ result[d].returned
           /\ args[c].url = args[d].url /\ args[c].sessionID = args[d].sessionID
           /\ args[d].payload = "[stored-check]" /\ args[d].contextStr = "stored"
           /\ effects[c] = effects[d] /\ first[c] = first[d])
          => Verdict(result[c]) = Verdict(result[d])

\* C17 witness: the stored check and the ValidatePayload call it stands for both
\* met a confirm() raised a second or more into the call, inside the wait window
C17_Witness ==
    \E c, d \in Calls :
        /\ args[c].entry = "VerifyStoredXSS" /\ args[d].entry = "ValidatePayload"
        /\ result[c].returned /\ result[d].returned
        /\ args[c].url = args[d].url
        /\ effects[c] = effects[d] /\ first[c] = first[d]
        /\ effects[c].firstAt = "wait"
        /\ first[c] = [Type |-> "confirm", Message |-> "1"]
        /\ result[c].ValidationDuration.secs >= 1
        /\ Len(result[c].ExecutionProofs) = 1
        /\ result[c].ExecutionProofs[1].ExecutionType = "confirm"
        /\ result[c].ExecutionProofs[1].ExecutionContext = "stored"

\* C19: every result the engine builds, in either driver and on every path,
\* has IsVulnerable equal to ExecutionDetected.
C19_VulnerableIsDetected ==
    \A c \in Calls : result[c].IsVulnerable = result[c].ExecutionDetected

\* C19 witness: ValidatePayload returned a confirmed result, both flags set
C19_Witness ==
    \E c \in Calls :
        /\ ReturnedVP(c)
        /\ result[c].path = "dialog"
        /\ result[c].IsVulnerable
        /\ result[c].ExecutionDetected

\* C20: when the manager was configured with TakeScreenshots = false, a call
\* that received a dialog returns ExecutionDetected with one proof, having taken
\* no screenshot and written no file, its proof's ScreenshotPath and
\* ScreenshotData empty.
C20_FlagControlsCapture ==
    \A c \in Calls :
        (ReturnedVP(c) /\ dlg[c] # NoDialog /\ ~config.TakeScreenshots) =>
            /\ result[c].ExecutionDetected
            /\ Len(result[c].ExecutionProofs) = 1
            /\ ~effects[c].screenshot
            /\ ~effects[c].wrote
            /\ result[c].ExecutionProofs[1].ScreenshotPath = <<>>
            /\ result[c].ExecutionProofs[1].ScreenshotData = <<>>

\* the proof file of a result was persisted
Persisted(r) ==
    /\ Len(r.ExecutionProofs) > 0
    /\ r.ExecutionProofs[1].ScreenshotPath # <<>>

\* two returned calls met the same URL and the same browser events: the same
\* navigation outcome, the same single dialog (or none) in the same phase, the
\* same capture and file-write outcome
SameEvents(c, d) ==
    /\ result[c].returned /\ result[d].returned
    /\ args[c].url = args[d].url
    /\ effects[c].navigated = effects[d].navigated
    /\ effects[c].loaded = effects[d].loaded
    /\ raised[c] = raised[d] /\ raised[c] <= 1
    /\ first[c] = first[d]
    /\ effects[c].firstAt = effects[d].firstAt
    /\ effects[c].screenshot = effects[d].screenshot
    /\ effects[c].wrote = effects[d].wrote
    /\ Persisted(result[c]) = Persisted(result[d])

\* C12: when checkXSSWithChromedp and checkXSSWithPuppeteer have met the same
\* URL and the same browser events, they return the same bool, their results
\* have the same ExecutionDetected, and their proofs describe the same dialog
\* (execution type and message).
C12_BackendsEquivalent ==
    \A c, d \in Calls :
        (/\ args[c].entry = "checkXSSWithChromedp"
         /\ args[d].entry = "checkXSSWithPuppeteer"
         /\ SameEvents(c, d))
        => /\ result[c].bool = result[d].bool
           /\ result[c].ExecutionDetected = result[d].ExecutionDetected
           /\ (Len(result[c].ExecutionProofs) > 0 /\ Len(result[d].ExecutionProofs) > 0)
                 => /\ result[c].ExecutionProofs[1].ExecutionType
                         = result[d].ExecutionProofs[1].ExecutionType
                    /\ result[c].ExecutionProofs[1].Evidence
                         = result[d].ExecutionProofs[1].Evidence

\* C21: on a host without a browser executable Initialize leaves the manager
\* uninitialized, so every ValidatePayload call that returns does so with the
\* not-initialized result, having started no navigation and no browser.
C21_MissingBrowserDetectedAtInit ==
    \A c \in Calls :
        ReturnedVP(c) =>
            /\ result[c].Error = NotInitialized
            /\ ~effects[c].context
            /\ ~effects[c].navigated

\* the execution-type tags a proof may carry
ExecutionTypes == {"alert", "confirm", "prompt", "dialog", "dom-change", "stored"}

\* C22: the ExecutionType of every proof in every result, of either driver, is
\* one of alert, confirm, prompt, dialog, dom-change, stored.
C22_ExecutionTypeClosed ==
    \A c \in Calls :
        \A i \in DOMAIN result[c].ExecutionProofs :
            result[c].ExecutionProofs[i].ExecutionType \in ExecutionTypes

\* C23: the dialog buffer of a call never holds more than one event, and when
\* the page raised several dialogs the proof of the returned result describes
\* the first one raised after the listener was armed: its message and its kind.
C23_FirstDialogReported ==
    \A c \in Calls :
        /\ Len(dialogCh[c]) <= 1
        /\ (result[c].returned /\ Len(result[c].ExecutionProofs) > 0) =>
              /\ result[c].ExecutionProofs[1].Evidence = first[c].Message
              /\ result[c].ExecutionProofs[1].ExecutionType
                    \in {first[c].Type, dialogTypeFromString(first[c].Type)}

\* C24: in every proof ScreenshotPath and ScreenshotData are both set or both
\* empty. In ValidatePayload the step that captures sets them exactly when the
\* capture succeeded, the conversion succeeded and the write succeeded, the
\* path being the file just written; any of the three failing leaves both
\* empty. The returned proof carries the payload hash, the dialog's kind and
\* message, the URL and the context label whatever the capture did.
C24_ImageFieldsTogether ==
    /\ [](\A c \in Calls :
            \A i \in DOMAIN result[c].ExecutionProofs :
                LET p == result[c].ExecutionProofs[i]
                IN  /\ (p.ScreenshotPath = <<>>) <=> (p.ScreenshotData = <<>>)
                    /\ ReturnedVP(c) =>
                          /\ p.ScreenshotPath # <<>> =>
                                (effects[c].screenshot /\ effects[c].wrote
                                 /\ p.ScreenshotPath \in files)
                          /\ p.PayloadSHA256 = sha256Hex(args[c].payload)
                          /\ p.ExecutionType = dialogTypeFromString(dlg[c].Type)
                          /\ p.Evidence = dlg[c].Message
                          /\ p.PageURL = args[c].url
                          /\ p.ExecutionContext = args[c].contextStr)
    /\ [][\A c \in Calls, shot \in ScreenshotOutcomes, w \in WriteOutcomes :
            VP_Screenshot(c, shot, w) =>
               LET allOK == /\ shot # "error"
                            /\ ~convertPNGtoJPG(shot, JPEGQuality).err
                            /\ w = "ok"
               IN  /\ (proof'[c].ScreenshotPath # <<>>) <=> allOK
                   /\ (proof'[c].ScreenshotData # <<>>) <=> allOK
                   /\ allOK => proof'[c].ScreenshotPath \in files']_vars

\* C24 witness: the capture and the conversion succeeded and the write failed
\* after creating the file; the returned proof has neither image field and
\* names the dialog
C24_Witness ==
    \E c \in Calls :
        /\ ReturnedVP(c)
        /\ Len(result[c].ExecutionProofs) = 1
        /\ effects[c].screenshot
        /\ effects[c].wrote
        /\ files # {}
        /\ result[c].ExecutionProofs[1].ScreenshotPath = <<>>
        /\ result[c].ExecutionProofs[1].ScreenshotData = <<>>
        /\ result[c].ExecutionProofs[1].Evidence = "xss"

\* C25: whatever options.HeadlessTimeout is, the waitTime the script runs with
\* (parseInt of the fifth argument, or 5) is at least one second.
C25_ScriptWaitPositive ==
    \A c \in Calls :
        (IsPX(c) /\ pc[c] = "px:on") =>
            /\ args[c].waitTime >= 1
            /\ waitSec[c] >= 1

\* C26: whenever a browser context created by ValidatePayload or
\* CaptureScreenshot is live, the manager is initialized; and no call goes on
\* to create a context while the manager is shut down.
C26_NoContextAfterShutdown ==
    \A c \in Calls :
        args[c].fn \in {"ValidatePayload", "CaptureScreenshot"} =>
            /\ ctxLive[c] => isInitialized
            /\ pc[c] \in {"vp:newContext", "cs:newContext"} => isInitialized

\* C27: Initialize and Shutdown run one at a time under initMutex. Every
\* Initialize leaves isInitialized true and every Shutdown leaves it false, also
\* after the other one; Initialize on an initialized manager and Shutdown on an
\* uninitialized one change nothing; and no other step changes the flag. So the
\* flag is true exactly when the last of them to complete was Initialize.
C27_LastLifecycleCallWins ==
    [][ /\ Initialize => (isInitialized' /\ (isInitialized => UNCHANGED vars))
        /\ Shutdown => (~isInitialized' /\ (~isInitialized => UNCHANGED vars))
        /\ (isInitialized' # isInitialized) => (Initialize \/ Shutdown) ]_vars

\* C27 witness: a call ran to a confirmed result, so Initialize had completed,
\* and Shutdown completed after it: the manager is uninitialized
C27_Witness ==
    /\ ~isInitialized
    /\ \E c \in Calls :
          /\ ReturnedVP(c)
          /\ result[c].path = "dialog"

\* two returned calls of the same function with the same arguments, the session
\* id apart, that met the same browser behaviour
SameCallOtherSession(c, d) ==
    /\ result[c].returned /\ result[d].returned
    /\ args[c].fn = args[d].fn
    /\ args[c].url = args[d].url
    /\ args[c].payload = args[d].payload
    /\ args[c].contextStr = args[d].contextStr
    /\ args[c].sessionID # args[d].sessionID
    /\ effects[c] = effects[d]
    /\ first[c] = first[d]

\* C28: no step of ValidatePayload, VerifyStoredXSS or CaptureScreenshot
\* changes the configuration, the session map or the isInitialized flag (the
\* flag changes only in Initialize and Shutdown); and two calls that differ in
\* their sessionID only return the same result.
C28_CallsLeaveManagerAlone ==
    /\ [][ /\ UNCHANGED <<config, sessions>>
           /\ (isInitialized' # isInitialized) => (Initialize \/ Shutdown) ]_vars
    /\ [](\A c, d \in Calls :
             SameCallOtherSession(c, d) =>
                /\ Verdict(result[c]) = Verdict(result[d])
                /\ result[c].data = result[d].data)

\* C28 witness: two confirmed validations under different session ids, the
\* manager's configuration and session map as constructed
C28_Witness ==
    \E c, d \in Calls :
        /\ SameCallOtherSession(c, d)
        /\ args[c].fn = "ValidatePayload"
        /\ result[c].ExecutionDetected /\ result[d].ExecutionDetected
        /\ config = PairConfig
        /\ sessions = {}

====
